---- MODULE Spec2Model ----
(***************************************************************************)
(* Playback queue and audio engine core of asteroid-player.                *)
(*                                                                         *)
(*   store      the zustand player store (store/playerStore.ts)            *)
(*   ctl        the refs and in-flight loads of AudioController            *)
(*   player     audioEngine.player, the single HTMLAudioElement            *)
(*   app        App: initial load, session saver, localStorage, catalog    *)
(*   engine     services/audioBase: the nodes of the Web Audio graph       *)
(*   QueueSpec    the queue reducers of the store, applied in any order    *)
(*   Spec         AudioController driven by the user, the loader and the   *)
(*                time-sync loop                                           *)
(*   SkipSpec     the store under the skip handlers and queue edits        *)
(*   EditSpec     AudioController while tracks of the queue are edited     *)
(*   MediaSpec    AudioController on a platform with a media session       *)
(*   ResumeSpec   AudioController started with stored song progress        *)
(*   EngineSpec   the audio engine: init() and the transport calls         *)
(*   SessionSpec  App saving the session and restoring it at a restart     *)
(*   SaverSpec    the session saver with AudioController playing           *)
(***************************************************************************)
EXTENDS Integers, Sequences, FiniteSets, TLC

\* ------------------------------------------------------------------ bounds
\* Longest queue the model builds (inserts are cut off above it).
MaxQueue == 4
\* Number of distinct track ids.
NumIds == 3
\* Number of loadSong requests one run of the controller issues.
MaxLoads == 3

\* ------------------------------------------------------------------- types
\* A Song is modelled by its id.  The library holds the ids below NumIds; the last
\* id is track 1 after an edit of artist, album or title changed its id (same file).
Ids == 1..NumIds
LibraryIds == 1..(NumIds - 1)

\* currentIndex: number | null.  The null of the store.
Null == -100

RepeatModes == <<"OFF", "ALL", "ONE">>

\* Every list of at most n songs.
RECURSIVE SongLists(_)
SongLists(n) ==
    IF n = 0 THEN {<<>>}
    ELSE LET shorter == SongLists(n - 1)
         IN  shorter \cup {Append(l, s) : l \in {x \in shorter : Len(x) = n - 1}, s \in Ids}

\* The lists a caller can pass: any list of songs up to the bound, and the lists a
\* library view shows (each track once).
AllLists == SongLists(MaxQueue)
ViewLists ==
    {l \in AllLists : /\ Len(l) > 0
                      /\ \A i \in 1..Len(l) : l[i] \in LibraryIds
                      /\ \A i, j \in 1..Len(l) : l[i] = l[j] => i = j}

\* ----------------------------------------------------------- array helpers
\* list[i] with the 0-based index of the source.
At(list, i) == list[i + 1]

\* Array.prototype.findIndex(s => s.id === id): first 0-based position, or -1.
FindIndex(list, id) ==
    IF \E k \in 1..Len(list) : list[k] = id
    THEN (CHOOSE k \in 1..Len(list) : list[k] = id /\ \A m \in 1..(k - 1) : list[m] # id) - 1
    ELSE -1

\* Array.prototype.filter(s => s.id !== id).
FilterOut(list, id) == SelectSeq(list, LAMBDA s : s # id)

\* copy.splice(pos, 0, ...items): pos is clamped to the length, as splice does.
SpliceIn(list, pos, items) ==
    LET p == IF pos > Len(list) THEN Len(list) ELSE pos
    IN  SubSeq(list, 1, p) \o items \o SubSeq(list, p + 1, Len(list))

\* copy.splice(pos, 1): the list without position pos.
SpliceOut(list, pos) == SubSeq(list, 1, pos) \o SubSeq(list, pos + 2, Len(list))

\* list.map(s => s.id === originalId ? newSong : s).
MapReplace(list, originalId, newSong) ==
    [k \in 1..Len(list) |-> IF list[k] = originalId THEN newSong ELSE list[k]]

IdSet(list) == {list[k] : k \in 1..Len(list)}

\* [a[i], a[j]] = [a[j], a[i]] with 0-based i, j.
Swap(a, i, j) == [a EXCEPT ![i + 1] = a[j + 1], ![j + 1] = a[i + 1]]

\* The Fisher-Yates loop of toggleShuffle: for (i = len-1; i > 0; i--) swap(i, j_i),
\* rnd[i] being the value of Math.floor(Math.random() * (i + 1)) drawn at step i.
RECURSIVE FisherYates(_, _, _)
FisherYates(a, i, rnd) ==
    IF i <= 0 THEN a ELSE FisherYates(Swap(a, i, rnd[i]), i - 1, rnd)

\* The draws Math.random can produce for a list of n elements.
RandomDraws(n) == [1..(n - 1) -> 0..(n - 1)]
DrawsFor(n) == {r \in RandomDraws(n) : \A i \in 1..(n - 1) : r[i] <= i}

\* ------------------------------------------------------------------- state
VARIABLES
    store,     \* usePlayerStore: queue, originalQueue, currentIndex, isShuffled,
               \* repeatMode, isPlaying, permissionErrorSong
    ctl,       \* AudioController: playRequestRef, activeObjectUrlRef,
               \* lastPlayedSourceRef, the loadSong calls awaiting getSourceUrl
    player,    \* audioEngine.player: src, paused, ended
    now,       \* the last value Date.now() returned
    app,       \* App: isInitialLoad, the pending timeout of the session saver,
               \* localStorage['asteroid_session'], the songs store of the database
    engine     \* services/audioBase: audioContext, analyser, sourceNode, eqFilters
               \* and the connections of the Web Audio graph

vars == <<store, ctl, player, now, app, engine>>

\* songProgress: Record<string, number>; Null where the record has no entry.
NoProgress == [id \in Ids |-> Null]

\* The store as create() builds it.
InitialStore ==
    [queue |-> <<>>, originalQueue |-> <<>>, currentIndex |-> Null,
     isShuffled |-> FALSE, repeatMode |-> "OFF", isPlaying |-> FALSE,
     permissionErrorSong |-> Null, songProgress |-> NoProgress]

\* ---------------------------------------------------------- store reducers
setQueue(state, songs) ==
    [state EXCEPT !.queue = songs, !.originalQueue = songs, !.isShuffled = FALSE]

setOriginalQueue(state, songs) == [state EXCEPT !.originalQueue = songs]

setCurrentIndex(state, index) == [state EXCEPT !.currentIndex = index]

setIsPlaying(state, val) == [state EXCEPT !.isPlaying = val]

setPermissionErrorSong(state, song) == [state EXCEPT !.permissionErrorSong = song]

\* delete newProgress[id]
consumeSongProgress(state, id) == [state EXCEPT !.songProgress[id] = Null]

\* reorderQueue leaving currentIndex where it was.
reorderQueue_keepIndex(state, startIndex, endIndex) ==
    LET removed == At(state.queue, startIndex)
        result == SpliceIn(SpliceOut(state.queue, startIndex), endIndex, <<removed>>)
    IN  [state EXCEPT !.queue = result,
                      !.originalQueue = IF state.isShuffled THEN state.originalQueue ELSE result]

reorderQueue(state, startIndex, endIndex) ==
    LET removed == At(state.queue, startIndex)
        result == SpliceIn(SpliceOut(state.queue, startIndex), endIndex, <<removed>>)
        cur == state.currentIndex
        newIndex ==
            IF cur = startIndex THEN endIndex
            ELSE IF cur # Null /\ startIndex < cur /\ endIndex >= cur THEN cur - 1
            ELSE IF cur # Null /\ startIndex > cur /\ endIndex <= cur THEN cur + 1
            ELSE cur
        newOriginal == IF state.isShuffled THEN state.originalQueue ELSE result
    IN  [state EXCEPT !.queue = result, !.currentIndex = newIndex,
                      !.originalQueue = newOriginal]

addToQueue(state, song) ==
    [state EXCEPT !.queue = Append(state.queue, song),
                  !.originalQueue = Append(state.originalQueue, song)]

\* state.queue[state.currentIndex] is undefined for an index outside the queue and
\* reading its .id throws a TypeError: the reducer then leaves the store unchanged.
InRange(state) ==
    state.currentIndex # Null /\ state.currentIndex \in 0..(Len(state.queue) - 1)

\* playNext without the mirrored insertion into originalQueue.
playNext_queueOnly(state, song) ==
    IF state.currentIndex = Null
    THEN [state EXCEPT !.queue = <<song>>, !.currentIndex = 0]
    ELSE IF ~InRange(state) THEN state
    ELSE [state EXCEPT !.queue = SpliceIn(state.queue, state.currentIndex + 1, <<song>>)]

playNext(state, song) ==
    IF state.currentIndex = Null
    THEN [state EXCEPT !.queue = <<song>>, !.originalQueue = <<song>>, !.currentIndex = 0]
    ELSE IF ~InRange(state) THEN state
    ELSE LET newQueue == SpliceIn(state.queue, state.currentIndex + 1, <<song>>)
             currentSong == At(state.queue, state.currentIndex)
             originalIndex == FindIndex(state.originalQueue, currentSong)
             newOriginal ==
                 IF originalIndex # -1
                 THEN SpliceIn(state.originalQueue, originalIndex + 1, <<song>>)
                 ELSE Append(state.originalQueue, song)
         IN  [state EXCEPT !.queue = newQueue, !.originalQueue = newOriginal]

clearQueue(state) ==
    IF InRange(state)
    THEN LET current == At(state.queue, state.currentIndex)
         IN  [state EXCEPT !.queue = <<current>>, !.originalQueue = <<current>>,
                           !.currentIndex = 0]
    ELSE state

bulkAddToQueue(state, songs, mode) ==
    IF mode = "NEXT"
    THEN IF state.currentIndex = Null
         THEN [state EXCEPT !.queue = songs, !.originalQueue = songs, !.currentIndex = 0]
         ELSE IF ~InRange(state) THEN state
         ELSE LET newQueue == SpliceIn(state.queue, state.currentIndex + 1, songs)
                  currentSong == At(state.queue, state.currentIndex)
                  originalIndex == FindIndex(state.originalQueue, currentSong)
                  newOriginal ==
                      IF originalIndex # -1
                      THEN SpliceIn(state.originalQueue, originalIndex + 1, songs)
                      ELSE state.originalQueue \o songs
              IN  [state EXCEPT !.queue = newQueue, !.originalQueue = newOriginal]
    ELSE [state EXCEPT !.queue = state.queue \o songs,
                       !.originalQueue = state.originalQueue \o songs]

deleteSongFromQueue(state, songId) ==
    LET newQueue == FilterOut(state.queue, songId)
        newOriginal == FilterOut(state.originalQueue, songId)
        cur == state.currentIndex
        newIndex ==
            IF InRange(state) /\ At(state.queue, cur) = songId THEN Null
            ELSE IF cur # Null THEN FindIndex(newQueue, At(state.queue, cur))
            ELSE cur
    IN  IF cur # Null /\ ~InRange(state) THEN state
        ELSE
        [state EXCEPT !.queue = newQueue, !.originalQueue = newOriginal,
                      !.currentIndex = newIndex,
                      !.isPlaying = IF newIndex = Null THEN FALSE ELSE state.isPlaying]

updateSongInQueue(state, originalId, newSong) ==
    [state EXCEPT !.queue = MapReplace(state.queue, originalId, newSong),
                  !.originalQueue = MapReplace(state.originalQueue, originalId, newSong)]

\* rnd: the Math.random draws of the shuffle loop (unused when turning shuffle off).
toggleShuffle(state, rnd) ==
    IF state.currentIndex = Null \/ Len(state.queue) = 0 THEN state
    ELSE IF ~InRange(state) THEN state
    ELSE IF state.isShuffled
    THEN LET currentSong == At(state.queue, state.currentIndex)
             originalIndex == FindIndex(state.originalQueue, currentSong)
         IN  [state EXCEPT !.isShuffled = FALSE, !.queue = state.originalQueue,
                           !.currentIndex = IF originalIndex # -1 THEN originalIndex ELSE 0]
    ELSE LET currentSong == At(state.queue, state.currentIndex)
             remaining == FilterOut(state.queue, currentSong)
             shuffled == FisherYates(remaining, Len(remaining) - 1, rnd)
         IN  [state EXCEPT !.isShuffled = TRUE, !.queue = <<currentSong>> \o shuffled,
                           !.currentIndex = 0]

toggleRepeat(state) ==
    LET nextIndex == (CHOOSE k \in 1..3 : RepeatModes[k] = state.repeatMode) % 3
    IN  [state EXCEPT !.repeatMode = RepeatModes[nextIndex + 1]]

\* ------------------------------------------------------- AudioController
\* FileOf(song): the underlying file (the rawSource getSourceUrl returns: a path, or
\* a File compared by name and size).  The last id is track 1 under a new id.
FileOf(song) == IF song = NumIds THEN 1 ELSE song

\* player.src of a fresh Audio(): no source.
NoSrc == [req |-> Null, song |-> Null]

\* Song.duration in seconds: 0 where the import found none (the file of track 2).
Duration(song) == IF FileOf(song) = 1 THEN 12 ELSE 0

\* loadSong: (currentSong.duration || 300) - 10
DefaultDuration == 300
ResumeMargin == 10

\* player.volume in thousandths.
FullVolume == 1000

\* new Audio().  currentTime is the position playback was last put at, by the code
\* or by the platform starting over; the advance while playing is not followed.
InitialPlayer ==
    [src |-> NoSrc, paused |-> TRUE, ended |-> FALSE, currentTime |-> 0,
     volume |-> FullVolume]

\* useRef(0), useRef(null), useRef(null); no loadSong call in flight.
\* issued counts the loadSong requests so far (a history variable: it numbers the
\* requests and no operation branches on it).
\* rafId: the frame requested by effect 5 is pending.
\* mediaSession: navigator.mediaSession where the platform has one (available);
\* once the previoustrack / nexttrack handlers are set (handlers), the
\* currentIndex and queue.length their closures hold.
InitialCtl ==
    [playRequestRef |-> 0, activeObjectUrlRef |-> Null, lastPlayedSourceRef |-> Null,
     loads |-> {}, issued |-> 0, rafId |-> TRUE,
     mediaSession |-> [available |-> FALSE, handlers |-> FALSE,
                       currentIndex |-> Null, queueLength |-> 0]]

\* What getSourceUrl can come back with: a source, a permission error thrown by
\* getSongFile (caught, src null), or no readable file (null / getFile throws).
Outcomes == {"ok", "denied", "unreadable"}

\* How the promise of player.play() settles.
PlayResults == {"started", "NotAllowedError"}

\* const currentSong = currentIndex !== null ? queue[currentIndex] : null
\* (undefined outside the queue; both make currentSong?.id undefined).
currentSong(state) == IF InRange(state) THEN At(state.queue, state.currentIndex) ELSE Null

\* HTMLMediaElement.pause().
pause(p) == [p EXCEPT !.paused = TRUE]

\* HTMLMediaElement.play(): playback (re)starts unless the autoplay policy rejects it.
\* An element that has ended starts over from 0.
play(p, playResult) ==
    IF playResult = "NotAllowedError" THEN p
    ELSE [p EXCEPT !.paused = FALSE, !.ended = FALSE,
                   !.currentTime = IF p.ended THEN 0 ELSE @]

\* player.src = src: the element loads the new resource, paused, not ended, at 0.
assignSrc(p, src) ==
    [p EXCEPT !.src = src, !.paused = TRUE, !.ended = FALSE, !.currentTime = 0]

\* requestAnimationFrame(loop) and cancelAnimationFrame(rafId) of effect 5.
requestAnimationFrame(c) == [c EXCEPT !.rafId = TRUE]
cancelAnimationFrame(c) == [c EXCEPT !.rafId = FALSE]

\* cleanupUrl(): revoke the tracked object URL and forget it.
cleanupUrl(c) == [c EXCEPT !.activeObjectUrlRef = Null]

\* The synchronous part of loadSong, run by effect 3 when currentSong?.id changed.
\* token is the value Date.now() returns; playing is the isPlaying of the render.
\* rendered: the currentIndex and queue.length of that render, which the
\* media-session handlers set by this call close over (kept where the platform
\* has a media session).
loadSongStart(w, token, playing) ==
    LET song == currentSong(w.store)
        rendered == IF w.ctl.mediaSession.available
                    THEN [currentIndex |-> w.store.currentIndex,
                          queueLength |-> Len(w.store.queue)]
                    ELSE [currentIndex |-> Null, queueLength |-> 0]
    IN  IF song = Null
        THEN [w EXCEPT !.player = pause(w.player),
                       !.ctl = [cleanupUrl(w.ctl) EXCEPT !.lastPlayedSourceRef = Null]]
        ELSE [w EXCEPT !.ctl.playRequestRef = token,
                       !.ctl.issued = w.ctl.issued + 1,
                       !.ctl.loads = w.ctl.loads \cup
                           {[req |-> w.ctl.issued + 1, requestId |-> token,
                             song |-> song, isPlaying |-> playing,
                             songProgress |-> w.store.songProgress,
                             rendered |-> rendered]}]

\* Effect 2 (play/pause), run when isPlaying changed between two renders.
playPauseEffect(w, playResult) ==
    IF w.store.isPlaying
    THEN IF playResult = "NotAllowedError"
         \* .catch: setIsPlaying(false); the next render runs the else branch
         THEN [w EXCEPT !.store = setIsPlaying(w.store, FALSE), !.player = pause(w.player)]
         ELSE [w EXCEPT !.player = play(w.player, playResult)]
    ELSE [w EXCEPT !.player = pause(w.player)]

\* One React commit: `rendered` is the store of the previous render, w.store the new
\* one.  Effects run in the order of the component: play/pause, then load song,
\* then the time-sync loop (cleanup and a new frame request when isPlaying,
\* currentIndex, queue or repeatMode changed).
commit(rendered, w, token, playResult) ==
    LET state == w.store
        playing == state.isPlaying
        idChanged == currentSong(state) # currentSong(rendered)
        loopDeps == <<state.isPlaying, state.currentIndex, state.queue, state.repeatMode>>
                      # <<rendered.isPlaying, rendered.currentIndex, rendered.queue,
                          rendered.repeatMode>>
        w2 == IF playing # rendered.isPlaying THEN playPauseEffect(w, playResult) ELSE w
        w3 == IF idChanged THEN loadSongStart(w2, token, playing) ELSE w2
    IN  IF loopDeps
        THEN [w3 EXCEPT !.ctl = requestAnimationFrame(cancelAnimationFrame(w3.ctl))]
        ELSE w3

\* A store update made by a handler, followed by the commit it causes.
update(w, newStore, token, playResult) ==
    commit(w.store, [w EXCEPT !.store = newStore], token, playResult)

\* loadSong skipping to the next track when no source comes back.
loadSongResume_skipOnFailure(w, l, outcome, playResult) ==
    LET w0 == [w EXCEPT !.ctl.loads = w.ctl.loads \ {l}]
        w1 == [w0 EXCEPT !.ctl = [cleanupUrl(w0.ctl) EXCEPT !.lastPlayedSourceRef = Null]]
        w3 == [w1 EXCEPT !.ctl.activeObjectUrlRef = l.req,
                         !.player = assignSrc(w1.player, [req |-> l.req, song |-> l.song])]
    IN  IF outcome = "ok" THEN w3
        ELSE IF InRange(w1.store) /\ w1.store.currentIndex < Len(w1.store.queue) - 1
        THEN update(w1, setCurrentIndex(w1.store, w1.store.currentIndex + 1),
                    w1.ctl.playRequestRef + 1, playResult)
        ELSE update(w1, setIsPlaying(w1.store, FALSE), w1.ctl.playRequestRef, playResult)

\* The Resume Logic of loadSong: savedTime is read from the songProgress of the
\* render that started the load.
resumePlayback(w, l) ==
    LET savedTime == l.songProgress[l.song]
        duration == IF Duration(l.song) # 0 THEN Duration(l.song) ELSE DefaultDuration
    IN  IF savedTime # Null /\ savedTime # 0 /\ savedTime > 0
           /\ savedTime < duration - ResumeMargin
        THEN [w EXCEPT !.player.currentTime = savedTime,
                       !.store = consumeSongProgress(w.store, l.song)]
        ELSE [w EXCEPT !.player.currentTime = 0]

\* updateMetadata called by the loadSong call l: the Media Session handlers are
\* set, closing over the currentIndex and queue of the render of l.
updateMetadata(w, l) ==
    IF ~w.ctl.mediaSession.available THEN w
    ELSE [w EXCEPT !.ctl.mediaSession =
             [available |-> TRUE, handlers |-> TRUE,
              currentIndex |-> l.rendered.currentIndex,
              queueLength |-> l.rendered.queueLength]]

\* The previoustrack handler (position within the first 3 seconds) and the
\* nexttrack handler of the media session m, on the store.
previoustrack(state, m) ==
    IF m.handlers /\ m.currentIndex # Null /\ m.currentIndex > 0
    THEN setCurrentIndex(state, m.currentIndex - 1)
    ELSE state

nexttrack(state, m) ==
    IF m.handlers /\ m.currentIndex # Null /\ m.currentIndex < m.queueLength - 1
    THEN setCurrentIndex(state, m.currentIndex + 1)
    ELSE state

\* loadSong after `await getSourceUrl(currentSong)` for the call l.
loadSongResume(w, l, outcome, playResult) ==
    LET rawSource == IF outcome = "ok" THEN FileOf(l.song) ELSE Null
        src == IF outcome = "ok" THEN [req |-> l.req, song |-> l.song] ELSE NoSrc
        isMetadataUpdate == w.ctl.lastPlayedSourceRef = rawSource
        w0 == [w EXCEPT !.ctl.loads = w.ctl.loads \ {l}]
        w1 == [w0 EXCEPT !.ctl = [cleanupUrl(w0.ctl) EXCEPT !.lastPlayedSourceRef = rawSource]]
        w2 == [w1 EXCEPT !.ctl.activeObjectUrlRef = l.req]
        w2m == updateMetadata(w2, l)
        w3 == resumePlayback([w2m EXCEPT !.player = assignSrc(w2m.player, src)], l)
    IN  IF isMetadataUpdate /\ w.player.src # NoSrc
        THEN updateMetadata(w0, l)
        ELSE IF src = NoSrc
        THEN update(w1, setIsPlaying(w1.store, FALSE), w1.ctl.playRequestRef, playResult)
        ELSE IF w2.ctl.playRequestRef # l.requestId
        THEN w2
        ELSE IF ~l.isPlaying THEN w3
        ELSE IF playResult = "NotAllowedError"
        THEN update(w3, setIsPlaying(w3.store, FALSE), w3.ctl.playRequestRef, playResult)
        ELSE [w3 EXCEPT !.player = play(w3.player, playResult)]

\* The time-sync loop going back to the first track whatever the repeat mode.
loop_wrapAlways(w, token, playResult) ==
    IF ~w.player.ended THEN w
    ELSE update(w, setCurrentIndex(w.store, 0), token, playResult)

\* The ended branch of the loop.
loopEnded(w, token, playResult) ==
    LET state == w.store
    IN  IF ~w.player.ended THEN w
        ELSE IF state.repeatMode = "ONE"
        THEN [w EXCEPT !.player = play([w.player EXCEPT !.ended = FALSE, !.currentTime = 0],
                                       playResult)]
        ELSE IF state.currentIndex # Null /\ state.currentIndex < Len(state.queue) - 1
        THEN update(w, setCurrentIndex(state, state.currentIndex + 1), token, playResult)
        ELSE IF state.repeatMode = "ALL"
        THEN update(w, setCurrentIndex(state, 0), token, playResult)
        ELSE update(w, setIsPlaying(state, FALSE), token, playResult)

\* The loop ending without asking for its next frame.
loop_noRequest(w, token, playResult) ==
    loopEnded([w EXCEPT !.ctl = cancelAnimationFrame(w.ctl)], token, playResult)

\* One frame of the time-sync loop (effect 5): the requested frame runs, and asks
\* for the next one at its end.
loop(w, token, playResult) ==
    LET r == loopEnded([w EXCEPT !.ctl.rafId = FALSE], token, playResult)
    IN  [r EXCEPT !.ctl = requestAnimationFrame(r.ctl)]

\* The element reaches the end of its resource: ended, and paused by the platform.
playbackEnds(p) == [p EXCEPT !.ended = TRUE, !.paused = TRUE]

\* ------------------------------------------------------------ AudioEngine
\* services/audioBase: the module-level nodes of the Web Audio graph and the
\* transport calls of the engine on its player.

EQ_FREQUENCIES == <<32, 63, 125, 250, 500, 1000, 2000, 4000, 8000, 16000>>

\* The nodes of the graph: the source wrapping the player, the k-th filter of
\* eqFilters (0-based), the analyser, audioContext.destination.
Node(kind, k) == [kind |-> kind, k |-> k]
sourceNode == Node("source", 0)
analyser == Node("analyser", 0)
destination == Node("destination", 0)

\* The module as loaded: no context, no node.  AudioContextClass: the platform has
\* window.AudioContext or webkitAudioContext.  created counts the nodes made and
\* calls the init() calls that got past the context check (history).
InitialEngine ==
    [AudioContextClass |-> TRUE, audioContext |-> FALSE, analyser |-> FALSE,
     sourceNode |-> FALSE, eqFilters |-> <<>>, connections |-> {},
     created |-> [analyser |-> 0, sourceNode |-> 0, eqFilters |-> 0], calls |-> 0]

\* node.disconnect(): every connection leaving the node is gone.
disconnect(connections, node) == {c \in connections : c[1] # node}

\* a.connect(b); connecting the same pair again changes nothing.
connect(connections, a, b) == connections \cup {<<a, b>>}

\* for (const filter of eqFilters) { currentNode.connect(filter); currentNode = filter }
RECURSIVE connectFilters(_, _, _, _)
connectFilters(connections, currentNode, k, n) ==
    IF k >= n THEN connections
    ELSE connectFilters(connect(connections, currentNode, Node("filter", k)),
                        Node("filter", k), k + 1, n)

RECURSIVE disconnectFilters(_, _, _)
disconnectFilters(connections, k, n) ==
    IF k >= n THEN connections
    ELSE disconnectFilters(disconnect(connections, Node("filter", k)), k + 1, n)

\* init() creating its ten filters at every call.
init_newFilters(e) ==
    IF ~e.audioContext /\ ~e.AudioContextClass THEN e
    ELSE LET n == Len(e.eqFilters) + Len(EQ_FREQUENCIES)
             chain == connectFilters({}, sourceNode, 0, n)
         IN  [e EXCEPT !.audioContext = TRUE, !.analyser = TRUE, !.sourceNode = TRUE,
                       !.eqFilters = @ \o [k \in 1..Len(EQ_FREQUENCIES) |->
                                              [frequency |-> EQ_FREQUENCIES[k], gain |-> 0]],
                       !.created.eqFilters = @ + Len(EQ_FREQUENCIES),
                       !.connections = connect(connect(chain, Node("filter", n - 1), analyser),
                                               analyser, destination),
                       !.calls = @ + 1]

\* AudioEngine.init().
init(e) ==
    IF ~e.audioContext /\ ~e.AudioContextClass THEN e
    ELSE LET e1 == [e EXCEPT !.audioContext = TRUE]
             e2 == IF ~e1.analyser
                   THEN [e1 EXCEPT !.analyser = TRUE, !.created.analyser = @ + 1] ELSE e1
             e3 == IF ~e2.sourceNode
                   THEN [e2 EXCEPT !.sourceNode = TRUE, !.created.sourceNode = @ + 1] ELSE e2
             e4 == IF Len(e3.eqFilters) = 0
                   THEN [e3 EXCEPT !.eqFilters = [k \in 1..Len(EQ_FREQUENCIES) |->
                                                     [frequency |-> EQ_FREQUENCIES[k], gain |-> 0]],
                                   !.created.eqFilters = @ + Len(EQ_FREQUENCIES)]
                   ELSE e3
             n == Len(e4.eqFilters)
             disconnected ==
                 disconnectFilters(disconnect(disconnect(e4.connections, sourceNode), analyser),
                                   0, n)
             chain == connectFilters(disconnected, sourceNode, 0, n)
             last == IF n = 0 THEN sourceNode ELSE Node("filter", n - 1)
         IN  [e4 EXCEPT !.connections = connect(connect(chain, last, analyser),
                                                analyser, destination),
                        !.calls = @ + 1]

\* The engine once AudioController has mounted (effect 1 calls audioEngine.init()).
MountedEngine == init(InitialEngine)

\* AudioEngine.seek(time), time finite; player.duration is NaN without a source.
seek(p, time) ==
    LET duration == IF p.src = NoSrc THEN 0 ELSE Duration(p.src.song)
        safeTime == IF duration = 0 \/ time < duration THEN time ELSE duration
    IN  [p EXCEPT !.currentTime = safeTime,
                  !.ended = IF duration = 0 \/ safeTime < duration THEN FALSE ELSE @]

\* AudioEngine.setVolume(val), val in tenths: the cube, kept within [0, 1].
setVolume(p, val) ==
    LET logVol == val * val * val
    IN  [p EXCEPT !.volume = IF logVol < 0 THEN 0
                             ELSE IF logVol > FullVolume THEN FullVolume ELSE logVol]

\* setFilterGain(index, value).
setFilterGain(e, index, value) ==
    LET e1 == IF Len(e.eqFilters) = 0 THEN init(e) ELSE e
    IN  IF index \in 0..(Len(e1.eqFilters) - 1)
        THEN [e1 EXCEPT !.eqFilters[index + 1].gain = value]
        ELSE e1

\* -------------------------------------------------------------------- Spec
\* AudioController with the store, driven by the user, by getSourceUrl coming back
\* and by the animation frames of the time-sync loop.

World == [store |-> store, ctl |-> ctl, player |-> player, app |-> app]

\* App once initApp is through, with nothing stored and no timeout pending.
LoadedApp ==
    [isInitialLoad |-> FALSE, timer |-> <<>>, storage |-> <<>>, catalog |-> LibraryIds,
     restored |-> FALSE, restarts |-> 0]

Init ==
    /\ store = InitialStore
    /\ ctl = InitialCtl
    /\ player = InitialPlayer
    /\ now = 1
    /\ app = LoadedApp
    /\ engine = MountedEngine

\* The next state is the world r; token was read from Date.now() if a load began.
Becomes(r, token) ==
    /\ r.ctl.issued <= MaxLoads
    /\ store' = r.store
    /\ ctl' = r.ctl
    /\ player' = r.player
    /\ app' = r.app
    /\ now' = IF r.ctl.issued # ctl.issued THEN token ELSE now
    /\ UNCHANGED engine

\* Date.now() does not go back: the same millisecond again, or a later one.  The
\* value is read only by a handler whose commit starts a load (startsLoad).
Clock(startsLoad) == IF startsLoad THEN {now, now + 1} ELSE {now}

\* Whether the commit of newStore runs loadSong for a song.
StartsLoad(newStore) ==
    currentSong(newStore) # currentSong(store) /\ currentSong(newStore) # Null

\* play() can only be rejected where it is called.
PlayResultsIf(called) == IF called THEN PlayResults ELSE {"started"}

\* Whether the commit of newStore calls play() in effect 2.
StartsPlay(newStore) == newStore.isPlaying /\ ~store.isPlaying

\* A handler sets the store to newStore; the commit runs the effects.
Handle(newStore) ==
    \E token \in Clock(StartsLoad(newStore)),
       playResult \in PlayResultsIf(StartsPlay(newStore)) :
        Becomes(update(World, newStore, token, playResult), token)

\* App.handlePlaySongContext.
PlaySongContext ==
    \E list \in ViewLists : \E index \in 0..(Len(list) - 1) :
        Handle(setIsPlaying(setCurrentIndex(setQueue(store, list), index), TRUE))

\* MusicPlayer.togglePlayPause.
togglePlayPause(state) ==
    IF currentSong(state) # Null THEN setIsPlaying(state, ~state.isPlaying)
    ELSE IF Len(state.queue) > 0 THEN setIsPlaying(setCurrentIndex(state, 0), TRUE)
    ELSE state

TogglePlayPause == Handle(togglePlayPause(store))

\* MusicPlayer.handleNext.
handleNext(state) ==
    IF state.currentIndex # Null /\ state.currentIndex < Len(state.queue) - 1
    THEN setCurrentIndex(state, state.currentIndex + 1)
    ELSE IF state.repeatMode = "ALL" THEN setCurrentIndex(state, 0)
    ELSE state

NextTrack == Handle(handleNext(store))

\* MusicPlayer.handlePrev when the position is within the first 3 seconds; the
\* index is left alone where the handler seeks to 0 instead.
handlePrev(state) ==
    IF state.currentIndex # Null /\ state.currentIndex > 0
    THEN setCurrentIndex(state, state.currentIndex - 1)
    ELSE IF state.repeatMode = "ALL" THEN setCurrentIndex(state, Len(state.queue) - 1)
    ELSE state

\* App.handleKeyDown for ArrowLeft / ArrowRight with ctrl or meta held (ArrowLeft:
\* when the position is within the first 3 seconds).
handleKeyDown(state, code) ==
    IF code = "ArrowLeft"
    THEN IF state.currentIndex # Null /\ state.currentIndex > 0
         THEN setCurrentIndex(state, state.currentIndex - 1)
         ELSE state
    ELSE IF state.currentIndex # Null /\ state.currentIndex < Len(state.queue) - 1
         THEN setCurrentIndex(state, state.currentIndex + 1)
         ELSE state

\* useAudioPlayer.seek(0): audio.currentTime = 0.
seek0(p) == [p EXCEPT !.ended = FALSE, !.currentTime = 0]

PrevTrack ==
    \/ Handle(handlePrev(store))
    \/ /\ \/ store.currentIndex = Null
          \/ store.currentIndex <= 0 /\ store.repeatMode # "ALL"
       /\ Becomes([World EXCEPT !.player = seek0(player)], now)

\* MusicPlayer.handlePrev past the first 3 seconds: seek(0) and return.
SeekToStart ==
    /\ player.src # NoSrc
    /\ Becomes([World EXCEPT !.player = seek0(player)], now)

ToggleRepeat == Handle(toggleRepeat(store))

\* App.handleDeleteSongs, for one song.
DeleteSong == \E songId \in Ids : Handle(deleteSongFromQueue(store, songId))

\* App.handleSongUpdate: an edit of artist, album or title gives track 1 a new id.
EditSong ==
    /\ 1 \in IdSet(store.queue)
    /\ Handle(updateSongInQueue(store, 1, NumIds))

\* getSourceUrl comes back for one of the loadSong calls in flight.
SourceResolves ==
    \E l \in ctl.loads, outcome \in Outcomes :
    \E playResult \in PlayResultsIf(l.isPlaying /\ outcome = "ok") :
        Becomes(loadSongResume(World, l, outcome, playResult), now)

\* What one animation frame does to the store (the index or isPlaying it sets).
LoopStore ==
    LET state == store
    IN  IF ~player.ended \/ state.repeatMode = "ONE" THEN state
        ELSE IF state.currentIndex # Null /\ state.currentIndex < Len(state.queue) - 1
        THEN setCurrentIndex(state, state.currentIndex + 1)
        ELSE IF state.repeatMode = "ALL" THEN setCurrentIndex(state, 0)
        ELSE setIsPlaying(state, FALSE)

\* requestAnimationFrame(loop).
LoopFrame ==
    /\ ctl.rafId
    /\ \E token \in Clock(StartsLoad(LoopStore)),
          playResult \in PlayResultsIf(player.ended /\ store.repeatMode = "ONE") :
        Becomes(loop(World, token, playResult), token)

\* The playing track reaches its end.
PlaybackEnds ==
    /\ player.src # NoSrc /\ ~player.paused /\ ~player.ended
    /\ player' = playbackEnds(player)
    /\ UNCHANGED <<store, ctl, now, app, engine>>

Next ==
    \/ PlaySongContext
    \/ TogglePlayPause
    \/ NextTrack
    \/ PrevTrack
    \/ SeekToStart
    \/ ToggleRepeat
    \/ DeleteSong
    \/ SourceResolves
    \/ LoopFrame
    \/ PlaybackEnds

Spec == Init /\ [][Next]_vars

\* The controller while the tracks of the queue are edited.
EditNext ==
    \/ PlaySongContext
    \/ TogglePlayPause
    \/ NextTrack
    \/ EditSong
    \/ SourceResolves

EditSpec == Init /\ [][EditNext]_vars

\* ------------------------------------------------------ controller claims
\* The worlds one animation frame can lead to, and those one completed source
\* resolution with the given outcome can lead to.
FrameResults == {loop(World, token, playResult) : token \in {now, now + 1}, playResult \in PlayResults}
ResumeResults(l, outcome) == {loadSongResume(World, l, outcome, playResult) : playResult \in PlayResults}
WorldNext == [store |-> store', ctl |-> ctl', player |-> player', app |-> app']

\* The load in flight for the current track, issued last.
CurrentLoads == {l \in ctl.loads : l.req = ctl.issued /\ l.song = currentSong(store)}

AtLastIndex(state) == InRange(state) /\ state.currentIndex = Len(state.queue) - 1

\* C1: whenever a source is assigned to the audio resource, it is the result of
\* the most recently issued load request (a superseded request never assigns).
C1_OnlyLatestAssigns == [][player'.src # player.src => player'.src.req = ctl.issued]_vars

\* C4: in every state where the resource has ended at the last index under repeat
\* ALL, the next frame of the time-sync loop sets currentIndex to 0 and gets
\* track 0 going again: it starts a load of it, or restarts the resource.
C4_RepeatAllRestarts ==
    (player.ended /\ store.repeatMode = "ALL" /\ AtLastIndex(store))
        => \A w \in FrameResults :
              /\ w.store.currentIndex = 0
              /\ \/ \E l \in w.ctl.loads : l.req > ctl.issued /\ l.song = At(store.queue, 0)
                 \/ ~w.player.ended

\* C5: a frame that finds the resource ended at the last index under repeat OFF
\* leaves currentIndex unchanged and sets isPlaying to false; and under repeat OFF
\* at the last index no step other than a user action (a frame, a source
\* resolution coming back, the track ending) changes currentIndex.
C5_RepeatOffStops ==
    [][(store.repeatMode = "OFF" /\ AtLastIndex(store))
          => /\ (player.ended /\ WorldNext \in FrameResults)
                    => (store'.currentIndex = store.currentIndex /\ ~store'.isPlaying)
             /\ (\/ WorldNext \in FrameResults
                 \/ \E l \in ctl.loads, o \in Outcomes : WorldNext \in ResumeResults(l, o)
                 \/ WorldNext = [World EXCEPT !.player = playbackEnds(player)])
                    => store'.currentIndex = store.currentIndex]_vars

\* Playback stopped at the end of a queue of several tracks.
C5_Witness ==
    /\ player.ended /\ store.repeatMode = "OFF" /\ AtLastIndex(store)
    /\ Len(store.queue) >= 2 /\ ~store.isPlaying /\ player.paused

\* The store after the end-of-track transition of the loop (repeat mode not ONE).
EndOfTrack(state) ==
    IF state.currentIndex # Null /\ state.currentIndex < Len(state.queue) - 1
    THEN setCurrentIndex(state, state.currentIndex + 1)
    ELSE IF state.repeatMode = "ALL" THEN setCurrentIndex(state, 0)
    ELSE setIsPlaying(state, FALSE)

C7_PermissionDenied ==
    [][\A l \in CurrentLoads : WorldNext \in ResumeResults(l, "denied")
          => /\ store'.permissionErrorSong = l.song
             /\ ~store'.isPlaying
             /\ store'.currentIndex = store.currentIndex]_vars

\* C13: when the source resolution of a load started by an edit of the current
\* track comes back (the track has its new id, the resource holds the same file
\* under the old id), the resource is left as it is: same source, same position,
\* not paused.
C13_MetadataUpdateKeepsResource ==
    [][\A l \in ctl.loads :
          (/\ l.song = NumIds /\ currentSong(store) = NumIds
           /\ player.src # NoSrc /\ player.src.song = FileOf(NumIds)
           /\ WorldNext \in ResumeResults(l, "ok"))
              => player' = player]_vars

\* The stores a play request leads to: togglePlayPause or handlePlaySongContext
\* turning isPlaying on.
PlayRequests ==
    {ns \in {togglePlayPause(store)} \cup
             UNION {{setIsPlaying(setCurrentIndex(setQueue(store, list), index), TRUE) :
                        index \in 0..(Len(list) - 1)} : list \in ViewLists} :
        StartsPlay(ns)}

\* The resolution of the load l in the world w gets as far as calling play().
CallsPlay(w, l) ==
    loadSongResume(w, l, "ok", "started") # loadSongResume(w, l, "ok", "NotAllowedError")

\* The worlds right after play() was rejected by the autoplay policy: on a play
\* request, or at the end of a successful load.
AfterBlock ==
    {update(World, ns, now + 1, "NotAllowedError") : ns \in PlayRequests}
    \cup {loadSongResume(World, l, "ok", "NotAllowedError") :
              l \in {x \in ctl.loads : CallsPlay(World, x)}}

\* C16: right after a rejected play(), isPlaying is false and permissionErrorSong
\* is as before; and what the controller does next without a new play request (a
\* source resolution coming back, an animation frame) does not call play().
C16_BlockedNoRetry ==
    \A w \in AfterBlock :
        /\ ~w.store.isPlaying
        /\ w.store.permissionErrorSong = store.permissionErrorSong
        /\ \A l \in w.ctl.loads : ~CallsPlay(w, l)
        /\ loop(w, now + 1, "started") = loop(w, now + 1, "NotAllowedError")

\* C17: in every state where isPlaying is true, a frame of the time-sync loop is
\* requested; and if the resource has ended, that frame takes the end-of-track
\* transition: under repeat ONE the resource is put back to 0 and is no longer
\* ended, otherwise the store moves to the next index, wraps to 0 or stops.
C17_LoopScheduled ==
    store.isPlaying
        => /\ ctl.rafId
           /\ player.ended
                => \A w \in FrameResults :
                      /\ w.ctl.rafId
                      /\ IF store.repeatMode = "ONE"
                         THEN ~w.player.ended /\ w.player.currentTime = 0
                         ELSE w.store = EndOfTrack(store)

\* The resource has ended while a load is in flight and isPlaying is true.
C17_Witness ==
    /\ store.isPlaying /\ player.ended /\ ctl.rafId
    /\ ctl.loads # {}
    /\ \E w \in FrameResults : w.store.currentIndex # store.currentIndex

\* C19: when the source resolution of a load whose token is no longer the one in
\* playRequestRef comes back, whatever its outcome, the store (isPlaying), the
\* record of the last loaded source, the tracked object URL and the resource are
\* left as they are.
C19_StaleIgnored ==
    [][\A l \in ctl.loads, outcome \in Outcomes :
          (l.requestId # ctl.playRequestRef /\ WorldNext \in ResumeResults(l, outcome))
              => /\ store' = store
                 /\ ctl'.lastPlayedSourceRef = ctl.lastPlayedSourceRef
                 /\ ctl'.activeObjectUrlRef = ctl.activeObjectUrlRef
                 /\ player' = player]_vars

\* C21: every load request started by a current-track change receives a token
\* strictly greater than the token of every earlier load request (playRequestRef
\* holds the latest of them, and tokens never go down).
C21_TokensIncrease ==
    [][ctl'.issued # ctl.issued
          => /\ ctl'.playRequestRef > ctl.playRequestRef
             /\ \A l \in ctl.loads : ctl'.playRequestRef > l.requestId]_vars

\* C27: while the resource reports ended (repeat mode not ONE) and the load of
\* the current track, the latest one issued, is still in flight, a frame of the
\* time-sync loop does not change currentIndex.
C27_OneAdvancePerEnd ==
    (player.ended /\ store.repeatMode # "ONE" /\ CurrentLoads # {})
        => \A w \in FrameResults : w.store.currentIndex = store.currentIndex

\* The metadata-update shortcut of loadSong is taken for the load l and the
\* outcome (the source on record is the one that came back and the resource has
\* a source).
TakesShortcut(l, outcome) ==
    /\ ctl.lastPlayedSourceRef = (IF outcome = "ok" THEN FileOf(l.song) ELSE Null)
    /\ player.src # NoSrc

\* C28: when a source resolution comes back successfully and the skip-reload
\* (metadata-update) shortcut is taken, the resource holds a source of that
\* track's file.
C28_ShortcutOnlyOnHeldSource ==
    [][\A l \in ctl.loads :
          (TakesShortcut(l, "ok") /\ WorldNext \in ResumeResults(l, "ok"))
              => FileOf(player.src.song) = FileOf(l.song)]_vars

\* C29: a step that revokes the tracked object URL (activeObjectUrlRef moves off
\* it) while that URL is the source of the resource either replaces the source of
\* the resource or leaves no current track.
C29_SourceInUseNotRevoked ==
    [][(/\ ctl.activeObjectUrlRef # Null
        /\ ctl'.activeObjectUrlRef # ctl.activeObjectUrlRef
        /\ player.src.req = ctl.activeObjectUrlRef
        /\ currentSong(store') # Null)
          => player'.src # player.src]_vars

\* --------------------------------------------------------------- MediaSpec
\* The controller on a platform with a media session: the platform sends
\* previoustrack / nexttrack commands while the queue is played and edited.

MediaInit ==
    /\ store = InitialStore
    /\ ctl = [InitialCtl EXCEPT !.mediaSession.available = TRUE]
    /\ player = InitialPlayer
    /\ now = 1
    /\ app = LoadedApp
    /\ engine = MountedEngine

\* Bounds of this specification: loadSong calls, and the longest queue.
MaxMediaLoads == 2
MaxMediaQueue == 3

\* A handler sets the store to newStore.
MediaHandle(newStore) ==
    /\ StartsLoad(newStore) => ctl.issued < MaxMediaLoads
    /\ Handle(newStore)

MediaPlaySongContext ==
    \E list \in ViewLists : \E index \in 0..(Len(list) - 1) :
        MediaHandle(setIsPlaying(setCurrentIndex(setQueue(store, list), index), TRUE))

\* navigator.mediaSession action 'nexttrack' / 'previoustrack'.
MediaNextTrack == MediaHandle(nexttrack(store, ctl.mediaSession))

MediaPreviousTrack == MediaHandle(previoustrack(store, ctl.mediaSession))

\* QueueView.onDragEnd.
ReorderQueue ==
    \E startIndex, endIndex \in 0..(Len(store.queue) - 1) :
        MediaHandle(reorderQueue(store, startIndex, endIndex))

\* "Play next" on a track of the library.
PlayNext ==
    /\ Len(store.queue) < MaxMediaQueue /\ Len(store.originalQueue) < MaxMediaQueue
    /\ \E song \in LibraryIds : MediaHandle(playNext(store, song))

\* App.handleDeleteSongs, for one song.
MediaDeleteSong == \E songId \in LibraryIds : MediaHandle(deleteSongFromQueue(store, songId))

MediaNext ==
    \/ MediaPlaySongContext
    \/ MediaNextTrack
    \/ MediaPreviousTrack
    \/ ReorderQueue
    \/ PlayNext
    \/ MediaDeleteSong
    \/ SourceResolves

MediaSpec == MediaInit /\ [][MediaNext]_vars

\* C30: with the handlers set, no load in flight and currentIndex on a track, a
\* nexttrack command sets currentIndex to the index after the current one, if
\* there is one, and a previoustrack command (position within the first 3
\* seconds) to the index before it, if there is one: the index and the length
\* are those of the store when the command arrives.
C30_CommandsActOnCurrentState ==
    (ctl.mediaSession.handlers /\ ctl.loads = {} /\ InRange(store))
        => LET cur == store.currentIndex
               last == Len(store.queue) - 1
           IN  /\ nexttrack(store, ctl.mediaSession).currentIndex
                     = IF cur < last THEN cur + 1 ELSE cur
               /\ previoustrack(store, ctl.mediaSession).currentIndex
                     = IF cur > 0 THEN cur - 1 ELSE cur

\* -------------------------------------------------------------- ResumeSpec
\* The controller started with a songProgress record read from localStorage.

\* Largest stored position, in seconds.
MaxSavedTime == 2

\* JSON.parse(localStorage.getItem('song_progress') || '{}'): saveLastPosition
\* writes a record of one entry.
StoredProgress ==
    {NoProgress} \cup {[NoProgress EXCEPT ![id] = t] : id \in LibraryIds, t \in 0..MaxSavedTime}

ResumeInit ==
    /\ store \in {[InitialStore EXCEPT !.songProgress = p] : p \in StoredProgress}
    /\ ctl = InitialCtl
    /\ player = InitialPlayer
    /\ now = 1
    /\ app = LoadedApp
    /\ engine = MountedEngine

ResumeNext ==
    \/ PlaySongContext
    \/ NextTrack
    \/ PrevTrack
    \/ SourceResolves

ResumeSpec == ResumeInit /\ [][ResumeNext]_vars

\* C14: when a load assigns the source of a track with stored progress s and
\* duration d, the position is s and the entry is deleted if 0 < s < d - 10;
\* otherwise the position is 0 and the progress record is left as it is.
C14_ResumeRule ==
    [][\A l \in ctl.loads :
          (WorldNext \in ResumeResults(l, "ok") /\ player'.src # player.src)
              => LET s == store.songProgress[l.song]
                     resumes == s # Null /\ 0 < s /\ s < Duration(l.song) - ResumeMargin
                 IN  IF resumes
                     THEN /\ player'.currentTime = s
                          /\ store'.songProgress = [store.songProgress EXCEPT ![l.song] = Null]
                     ELSE /\ player'.currentTime = 0
                          /\ store'.songProgress = store.songProgress]_vars

\* C15: a load that puts track T at a stored position finds the entry for T in
\* the progress record and deletes it: once T has been resumed, no later load
\* starts it anywhere but at 0 (nothing in the program writes a new entry).
C15_ConsumedOnce ==
    [][\A l \in ctl.loads :
          (WorldNext \in ResumeResults(l, "ok") /\ player'.src # player.src)
              => /\ store'.songProgress[l.song] # Null => player'.currentTime = 0
                 /\ player'.currentTime # 0 => store.songProgress[l.song] = player'.currentTime]_vars

\* -------------------------------------------------------------- EngineSpec
\* The audio engine on its own: init() and the transport calls, on a platform
\* with or without the Web Audio API.

\* init() calls followed in a run.
MaxInits == 3
\* Positions passed to seek, in seconds, and volumes passed to setVolume, in tenths.
MaxSeek == 2
MaxVolume == 11
\* Gains passed to setFilterGain are within -MaxGain..MaxGain (dB).
MaxGain == 1

EngineInit ==
    /\ store = InitialStore
    /\ ctl = InitialCtl
    /\ player = InitialPlayer
    /\ now = 1
    /\ app = LoadedApp
    /\ engine \in {InitialEngine, [InitialEngine EXCEPT !.AudioContextClass = FALSE]}

EngineFrame == UNCHANGED <<store, ctl, now, app>>

EInit ==
    /\ engine.calls < MaxInits
    /\ engine' = init(engine)
    /\ UNCHANGED player

EPlay == (\E playResult \in PlayResults : player' = play(player, playResult)) /\ UNCHANGED engine

EPause == player' = pause(player) /\ UNCHANGED engine

ESeek == (\E time \in 0..MaxSeek : player' = seek(player, time)) /\ UNCHANGED engine

ESetVolume ==
    (\E val \in {0, MaxVolume \div 2, MaxVolume} : player' = setVolume(player, val))
    /\ UNCHANGED engine

\* The first and the last band, and an index past the last band.
ESetFilterGain ==
    /\ \E index \in {0, Len(EQ_FREQUENCIES) - 1, Len(EQ_FREQUENCIES)},
          value \in (-MaxGain)..MaxGain :
           engine' = setFilterGain(engine, index, value)
    /\ engine'.calls <= MaxInits
    /\ UNCHANGED player

EngineNext ==
    \/ EInit /\ EngineFrame
    \/ EPlay /\ EngineFrame
    \/ EPause /\ EngineFrame
    \/ ESeek /\ EngineFrame
    \/ ESetVolume /\ EngineFrame
    \/ ESetFilterGain /\ EngineFrame

EngineSpec == EngineInit /\ [][EngineNext]_vars

\* What one transport call can make of the player and of the engine.
TransportPlayers ==
    {play(player, playResult) : playResult \in PlayResults}
    \cup {pause(player)}
    \cup {seek(player, time) : time \in 0..MaxSeek}
    \cup {setVolume(player, val) : val \in 0..MaxVolume}
TransportEngines ==
    {setFilterGain(engine, index, value) :
        index \in 0..Len(EQ_FREQUENCIES), value \in (-MaxGain)..MaxGain}

\* C18: on a platform without the Web Audio API (no audio context can be created:
\* init() has not succeeded, however often it was called), every transport call
\* leaves the player and the engine as they are.
C18_InertBeforeInit ==
    (~engine.AudioContextClass /\ ~engine.audioContext)
        => /\ \A p \in TransportPlayers : p = player
           /\ \A e \in TransportEngines : e = engine

\* The chain source -> filter 0 -> ... -> filter 9 -> analyser -> destination.
Chain ==
    {<<sourceNode, Node("filter", 0)>>}
    \cup {<<Node("filter", k), Node("filter", k + 1)>> : k \in 0..(Len(EQ_FREQUENCIES) - 2)}
    \cup {<<Node("filter", Len(EQ_FREQUENCIES) - 1), analyser>>, <<analyser, destination>>}

\* C20: once init() has run, however many times, there is one source node, one
\* analyser and ten filters at the frequencies of the bands, connected in the one
\* chain; and one more init() call changes nothing but the count of the calls
\* (the gains set in between are kept).
C20_InitIdempotent ==
    engine.calls >= 1
        => /\ engine.created = [analyser |-> 1, sourceNode |-> 1,
                                 eqFilters |-> Len(EQ_FREQUENCIES)]
           /\ Len(engine.eqFilters) = Len(EQ_FREQUENCIES)
           /\ \A k \in 1..Len(EQ_FREQUENCIES) :
                  engine.eqFilters[k].frequency = EQ_FREQUENCIES[k]
           /\ engine.connections = Chain
           /\ init(engine) = [engine EXCEPT !.calls = @ + 1]

\* init() was called several times, with a gain set before the last call.
C20_Witness ==
    /\ engine.calls = MaxInits
    /\ engine.eqFilters[1].gain # 0
    /\ engine.eqFilters[Len(EQ_FREQUENCIES)].gain # 0

\* --------------------------------------------------------------- QueueSpec
\* The queue reducers applied by their callers, in any order.

QueueInit ==
    /\ store = InitialStore
    /\ ctl = InitialCtl
    /\ player = InitialPlayer
    /\ now = 1
    /\ app = LoadedApp
    /\ engine = MountedEngine

QueueFrame == UNCHANGED <<ctl, player, now, app, engine>>

\* App.handlePlaySongContext: a view plays the track at `index` of its list.
QPlaySongContext ==
    \E list \in AllLists : \E index \in 0..(Len(list) - 1) :
        store' = setIsPlaying(setCurrentIndex(setQueue(store, list), index), TRUE)

\* App.handleFileSelect / handleLinkFolder: an import fills an empty queue.
QImport ==
    /\ Len(store.queue) = 0
    /\ \E list \in AllLists : store' = setQueue(store, list)

\* QueueView.onPlaySong: the user picks a row of the queue.
QPlaySong ==
    \E index \in 0..(Len(store.queue) - 1) :
        store' = setIsPlaying(setCurrentIndex(store, index), TRUE)

\* QueueView.onDragEnd: both indices are rows of the displayed queue.
QReorderQueue ==
    \E startIndex, endIndex \in 0..(Len(store.queue) - 1) :
        store' = reorderQueue(store, startIndex, endIndex)

\* Room for n more songs in both orderings (the bound of the model).
Fits(state, n) ==
    Len(state.queue) + n <= MaxQueue /\ Len(state.originalQueue) + n <= MaxQueue

QAddToQueue ==
    /\ Fits(store, 1)
    /\ \E song \in Ids : store' = addToQueue(store, song)

QPlayNext ==
    /\ Len(store.queue) < MaxQueue /\ Len(store.originalQueue) < MaxQueue
    /\ \E song \in Ids : store' = playNext(store, song)

QBulkAddToQueue ==
    \E songs \in AllLists, mode \in {"NEXT", "END"} :
        /\ Fits(store, Len(songs))
        /\ store' = bulkAddToQueue(store, songs, mode)

QDeleteSongFromQueue == \E songId \in Ids : store' = deleteSongFromQueue(store, songId)

QClearQueue == store' = clearQueue(store)

QUpdateSongInQueue ==
    \E originalId, newSong \in Ids : store' = updateSongInQueue(store, originalId, newSong)

QToggleShuffle ==
    \E rnd \in DrawsFor(Len(store.queue) - 1) : store' = toggleShuffle(store, rnd)

QToggleRepeat == store' = toggleRepeat(store)

\* FullScreenPlayer / PartyMode handleNext and handlePrev: the same code as the
\* player bar's, on buttons that are never disabled.
QNextTrack == store' = handleNext(store)

QPrevTrack == store' = handlePrev(store)

QKeyDown == \E code \in {"ArrowLeft", "ArrowRight"} : store' = handleKeyDown(store, code)

QueueNext ==
    \/ QPlaySongContext /\ QueueFrame
    \/ QImport /\ QueueFrame
    \/ QPlaySong /\ QueueFrame
    \/ QReorderQueue /\ QueueFrame
    \/ QAddToQueue /\ QueueFrame
    \/ QPlayNext /\ QueueFrame
    \/ QBulkAddToQueue /\ QueueFrame
    \/ QDeleteSongFromQueue /\ QueueFrame
    \/ QClearQueue /\ QueueFrame
    \/ QUpdateSongInQueue /\ QueueFrame
    \/ QToggleShuffle /\ QueueFrame
    \/ QToggleRepeat /\ QueueFrame

QueueSpec == QueueInit /\ [][QueueNext]_vars

\* The queue under the skip buttons, with tracks added, removed and picked.
SkipNext ==
    \/ QNextTrack /\ QueueFrame
    \/ QPrevTrack /\ QueueFrame
    \/ QKeyDown /\ QueueFrame
    \/ QToggleRepeat /\ QueueFrame
    \/ QImport /\ QueueFrame
    \/ QPlaySong /\ QueueFrame
    \/ QAddToQueue /\ QueueFrame
    \/ QDeleteSongFromQueue /\ QueueFrame
    \/ QClearQueue /\ QueueFrame

SkipSpec == QueueInit /\ [][SkipNext]_vars

IndexValid(state) ==
    state.currentIndex = Null \/ state.currentIndex \in 0..(Len(state.queue) - 1)

SameIds(state) == IdSet(state.queue) = IdSet(state.originalQueue)

\* Every result of one reorder / insert / remove / toggleShuffle call on `state`.
ReorderInsertRemoveShuffle(state) ==
    {reorderQueue(state, a, b) : a \in 0..(Len(state.queue) - 1), b \in 0..(Len(state.queue) - 1)}
    \cup {addToQueue(state, song) : song \in Ids}
    \cup {playNext(state, song) : song \in Ids}
    \cup {bulkAddToQueue(state, songs, mode) :
              songs \in AllLists, mode \in {"NEXT", "END"}}
    \cup {deleteSongFromQueue(state, songId) : songId \in Ids}
    \cup {toggleShuffle(state, rnd) : rnd \in DrawsFor(Len(state.queue) - 1)}

\* C2: a reorder, insert, remove or toggleShuffle call made in a state whose
\* currentIndex is null or inside the queue leaves currentIndex null or inside
\* the queue.
C2_IndexInBounds ==
    [][(IndexValid(store) /\ store' \in ReorderInsertRemoveShuffle(store))
          => IndexValid(store')]_vars

\* C3: in every state reached by the queue operations, the active queue and the
\* canonical queue hold the same set of track ids.
C3_SameIdSets == SameIds(store)

\* A shuffled queue whose order differs from the canonical one.
C3_Witness ==
    /\ store.isShuffled
    /\ Len(store.queue) >= 2
    /\ store.queue # store.originalQueue

\* No track id occurs twice in the list.
Distinct(list) == \A i, j \in 1..Len(list) : list[i] = list[j] => i = j

\* C11: in every state with shuffle off, a queue of distinct tracks and
\* currentIndex on a track, toggleShuffle() gives an active queue that starts with
\* the current track, with currentIndex 0; a second toggleShuffle() gives back the
\* active queue and the currentIndex of before the first.
C11_ShuffleRoundTrip ==
    (~store.isShuffled /\ Distinct(store.queue) /\ InRange(store))
        => \A rnd \in DrawsFor(Len(store.queue) - 1) :
              LET on == toggleShuffle(store, rnd)
                  off == toggleShuffle(on, rnd)
              IN  /\ on.isShuffled /\ on.currentIndex = 0
                  /\ At(on.queue, 0) = currentSong(store)
                  /\ ~off.isShuffled
                  /\ off.queue = store.queue
                  /\ off.currentIndex = store.currentIndex

\* list with the element at `from` taken out and put back at position `to`.
Moved(list, from, to) ==
    [k \in 1..Len(list) |->
        IF k - 1 = to THEN At(list, from)
        ELSE IF from <= k - 1 /\ k - 1 < to THEN list[k + 1]
        ELSE IF to < k - 1 /\ k - 1 <= from THEN list[k - 1]
        ELSE list[k]]

\* C12: in every state with a queue of distinct tracks and currentIndex on a
\* track, reorderQueue(from, to) for any two rows gives the queue with the element
\* at `from` moved to `to`, and a currentIndex on the same track as before: `to` if
\* the moved element was current, one less or one more if the move went across the
\* current row, and the same otherwise.
C12_ReorderKeepsCurrent ==
    (Distinct(store.queue) /\ InRange(store))
        => \A from, to \in 0..(Len(store.queue) - 1) :
              LET r == reorderQueue(store, from, to)
                  cur == store.currentIndex
              IN  /\ r.queue = Moved(store.queue, from, to)
                  /\ InRange(r) /\ currentSong(r) = currentSong(store)
                  /\ r.currentIndex =
                        IF from = cur THEN to
                        ELSE IF from < cur /\ to >= cur THEN cur - 1
                        ELSE IF from > cur /\ to <= cur THEN cur + 1
                        ELSE cur

\* A queue of three distinct tracks with the middle one current: a move can take
\* the current track along, go across it in both directions, or stay on one side.
C12_Witness ==
    /\ Len(store.queue) = 3 /\ Distinct(store.queue)
    /\ store.currentIndex = 1
    /\ reorderQueue(store, 0, 2).currentIndex = 0
    /\ reorderQueue(store, 2, 0).currentIndex = 2
    /\ reorderQueue(store, 1, 2).currentIndex = 2

\* C22: for every i, setCurrentIndex(i) leaves currentIndex equal to i if
\* 0 <= i < queue.length and null otherwise; and so the previous / next handlers,
\* which call it, leave currentIndex null or inside the queue.
C22_SetIndexRejects ==
    /\ \A i \in (-1)..MaxQueue :
          setCurrentIndex(store, i).currentIndex =
              IF i \in 0..(Len(store.queue) - 1) THEN i ELSE Null
    /\ IndexValid(handleNext(store))
    /\ IndexValid(handlePrev(store))

\* Media Session handlers set in the render of `state`.
SessionOf(state) ==
    [available |-> TRUE, handlers |-> TRUE,
     currentIndex |-> state.currentIndex, queueLength |-> Len(state.queue)]

\* The stores a forward (dir = 1) or backward (dir = -1) skip leads to from every
\* entry point: player bar, media session, keyboard.
Skips(state, dir) ==
    IF dir = 1
    THEN {handleNext(state), nexttrack(state, SessionOf(state)),
          handleKeyDown(state, "ArrowRight")}
    ELSE {handlePrev(state), previoustrack(state, SessionOf(state)),
          handleKeyDown(state, "ArrowLeft")}

\* C23: with currentIndex on a track, a skip from any entry point moves
\* currentIndex by one where that stays inside the queue; at the last index going
\* forward it sets 0, and at index 0 going backward the last index, if and only
\* if repeatMode is ALL; otherwise currentIndex is unchanged.
C23_SkipWrapRule ==
    InRange(store)
        => \A dir \in {-1, 1} : \A r \in Skips(store, dir) :
              LET cur == store.currentIndex
                  last == Len(store.queue) - 1
              IN  r.currentIndex =
                      IF cur + dir \in 0..last THEN cur + dir
                      ELSE IF store.repeatMode = "ALL"
                      THEN (IF dir = 1 THEN 0 ELSE last)
                      ELSE cur

\* The queue fields setQueue writes.
QueueFields(state) == <<state.queue, state.originalQueue, state.isShuffled>>

\* C24: when currentIndex is null, playNext, addToQueue and bulkAddToQueue (mode
\* NEXT and mode END) make the active and the canonical queue exactly the
\* inserted tracks with shuffled false, as setQueue on those tracks does.
C24_InsertAsReplace ==
    store.currentIndex = Null
        => /\ \A song \in Ids :
                /\ QueueFields(playNext(store, song)) = <<<<song>>, <<song>>, FALSE>>
                /\ QueueFields(addToQueue(store, song)) = <<<<song>>, <<song>>, FALSE>>
                /\ QueueFields(playNext(store, song)) = QueueFields(setQueue(store, <<song>>))
           /\ \A songs \in AllLists, mode \in {"NEXT", "END"} :
                /\ QueueFields(bulkAddToQueue(store, songs, mode)) = <<songs, songs, FALSE>>
                /\ QueueFields(bulkAddToQueue(store, songs, mode))
                      = QueueFields(setQueue(store, songs))

\* The entries of list other than id, in their order.
Without(list, id) == SelectSeq(list, LAMBDA s : s # id)

Count(list, id) == Cardinality({k \in 1..Len(list) : list[k] = id})

\* C26: in every state with shuffle off and currentIndex on a track (the same
\* track id possibly several times in the queue), toggleShuffle() gives an
\* active queue with the same number of entries of every track id as before,
\* hence the same length, and the current track first.
C26_ShufflePermutes ==
    (~store.isShuffled /\ InRange(store))
        => \A rnd \in DrawsFor(Len(store.queue) - 1) :
              LET on == toggleShuffle(store, rnd)
              IN  /\ Len(on.queue) = Len(store.queue)
                  /\ \A id \in Ids : Count(on.queue, id) = Count(store.queue, id)
                  /\ At(on.queue, 0) = currentSong(store)

\* ------------------------------------------------------------ SessionSpec
\* App: initApp restoring the session at startup and the SESSION SAVER effect,
\* around the store and AudioController.

\* Animation frames that go by in the 1000 ms of the saver's timeout.
DebounceFrames == 2
\* Times the application is closed and started again.
MaxRestarts == 2
\* loadSongsRange(0, 50): the songs initApp has at hand when it restores.
InitialChunk == 50

\* The object the saver writes (currentTime and queueTitle are left out).
Session(state) ==
    [queueIds |-> state.queue, index |-> state.currentIndex,
     repeatMode |-> state.repeatMode, isShuffled |-> state.isShuffled]

\* loadSongsRange(0, limit): the cursor walks the songs store in key order.
RECURSIVE loadSongsRange(_, _)
loadSongsRange(catalog, limit) ==
    IF catalog = {} \/ limit = 0 THEN <<>>
    ELSE LET first == CHOOSE x \in catalog : \A y \in catalog : x <= y
         IN  <<first>> \o loadSongsRange(catalog \ {first}, limit - 1)

\* session.queueIds.map(id => queueMap.get(id)).filter(s => !!s)
restoredQueue(session, initialSongs) ==
    SelectSeq(session.queueIds, LAMBDA id : id \in IdSet(initialSongs))

\* The restore clamping the saved index to the last row of the restored queue.
initApp_clampIndex(state, storage, initialSongs) ==
    IF Len(initialSongs) = 0 \/ storage = <<>> THEN state
    ELSE LET session == storage[1]
             restored == restoredQueue(session, initialSongs)
             index == IF session.index = Null THEN Null
                      ELSE IF session.index < Len(restored) THEN session.index
                      ELSE Len(restored) - 1
         IN  IF Len(restored) = 0 THEN state
             ELSE [setQueue(state, restored) EXCEPT !.isShuffled = session.isShuffled,
                                                   !.currentIndex = index]

\* What initApp does to the store: storage is localStorage['asteroid_session']
\* (<<>> when absent), initialSongs the first chunk of the library.
initApp(state, storage, initialSongs) ==
    IF Len(initialSongs) = 0 THEN state
    ELSE IF storage = <<>> THEN setQueue(state, initialSongs)
    ELSE LET session == storage[1]
             restored == restoredQueue(session, initialSongs)
             s1 == setQueue(state, restored)
             s2 == IF session.isShuffled THEN [s1 EXCEPT !.isShuffled = TRUE] ELSE s1
             s3 == setOriginalQueue(s2, restored)
         IN  IF Len(session.queueIds) = 0 \/ Len(restored) = 0 THEN state
             ELSE IF session.index # Null /\ session.index < Len(restored)
             THEN setCurrentIndex(s3, session.index)
             ELSE s3

\* The SESSION SAVER effect run again: its cleanup clears the pending timeout, and
\* a new one is set for the rendered values once the initial load is over and the
\* queue is not empty.
sessionSaver(a, state) ==
    [a EXCEPT !.timer = IF ~a.isInitialLoad /\ Len(state.queue) > 0
                        THEN <<[session |-> Session(state), age |-> 0]>>
                        ELSE <<>>]

\* App rendered again after the store went from `rendered` to `state`;
\* timeChanged: the store's currentTime changed too.  The saver runs again if one
\* of its dependencies changed.  restored is history: the store is as initApp
\* restored it.
render(a, rendered, state, timeChanged) ==
    LET depsChanged == Session(state) # Session(rendered) \/ timeChanged
        a1 == [a EXCEPT !.restored = @ /\ state = rendered]
    IN  IF depsChanged THEN sessionSaver(a1, state) ELSE a1

\* The store with App above it; the audio resource stays paused.
SessionInit ==
    /\ store = InitialStore
    /\ ctl = InitialCtl
    /\ player = InitialPlayer
    /\ now = 1
    /\ app = [LoadedApp EXCEPT !.isInitialLoad = TRUE]
    /\ engine = MountedEngine

SessionFrame == UNCHANGED <<ctl, player, now, engine>>

\* initApp comes to its end: the queue is restored and isInitialLoad goes false,
\* in one render.
InitApp ==
    /\ app.isInitialLoad
    /\ LET initialSongs == loadSongsRange(app.catalog, InitialChunk)
           a == [app EXCEPT !.isInitialLoad = FALSE,
                            !.restored = app.storage # <<>> /\ Len(initialSongs) > 0]
       IN  /\ store' = initApp(store, app.storage, initialSongs)
           /\ app' = sessionSaver(a, store')

\* The application is closed and started again: localStorage and the database stay.
Restart ==
    /\ ~app.isInitialLoad
    /\ app.restarts < MaxRestarts
    /\ store' = InitialStore
    /\ app' = [app EXCEPT !.isInitialLoad = TRUE, !.timer = <<>>, !.restored = FALSE,
                          !.restarts = @ + 1]

\* A handler of the loaded application sets the store to newStore.
AppSets(newStore) ==
    /\ ~app.isInitialLoad
    /\ store' = newStore
    /\ app' = render(app, store, newStore, FALSE)

APlaySongContext ==
    \E list \in ViewLists : \E index \in 0..(Len(list) - 1) :
        /\ IdSet(list) \subseteq app.catalog
        /\ AppSets(setIsPlaying(setCurrentIndex(setQueue(store, list), index), TRUE))

ANextTrack == AppSets(handleNext(store))

AToggleRepeat == AppSets(toggleRepeat(store))

AToggleShuffle ==
    \E rnd \in DrawsFor(Len(store.queue) - 1) : AppSets(toggleShuffle(store, rnd))

\* App.handleDeleteSongs for one song: gone from the database and from the queue.
ADeleteSongs ==
    \E songId \in app.catalog :
        /\ ~app.isInitialLoad
        /\ store' = deleteSongFromQueue(store, songId)
        /\ app' = render([app EXCEPT !.catalog = @ \ {songId}], store, store', FALSE)

\* An animation frame while the resource is paused: nothing is set, and the
\* pending timeout of the saver is one frame nearer.
QuietFrame ==
    /\ app.timer # <<>>
    /\ app.timer[1].age < DebounceFrames
    /\ app' = [app EXCEPT !.timer[1].age = @ + 1]
    /\ UNCHANGED store

\* The timeout of the saver: localStorage.setItem('asteroid_session', ...).
TimerFires ==
    /\ app.timer # <<>>
    /\ app.timer[1].age = DebounceFrames
    /\ app' = [app EXCEPT !.storage = <<app.timer[1].session>>, !.timer = <<>>,
                          !.restored = FALSE]
    /\ UNCHANGED store

SessionNext ==
    \/ InitApp /\ SessionFrame
    \/ Restart /\ SessionFrame
    \/ APlaySongContext /\ SessionFrame
    \/ ANextTrack /\ SessionFrame
    \/ AToggleRepeat /\ SessionFrame
    \/ AToggleShuffle /\ SessionFrame
    \/ ADeleteSongs /\ SessionFrame
    \/ QuietFrame /\ SessionFrame
    \/ TimerFires /\ SessionFrame

SessionSpec == SessionInit /\ [][SessionNext]_vars

\* -------------------------------------------------------------- SaverSpec
\* The session saver with AudioController below App: the frames of the time-sync
\* loop write currentTime while the resource plays.  The application has started
\* for the first time: the queue is the library, nothing is selected.
SaverInit ==
    /\ store = initApp(InitialStore, <<>>, loadSongsRange(LibraryIds, InitialChunk))
    /\ ctl = InitialCtl
    /\ player = InitialPlayer
    /\ now = 1
    /\ app = sessionSaver(LoadedApp, store)
    /\ engine = MountedEngine

\* Loads followed in a run of the saver.
MaxSaverLoads == 2

\* The next state is the world r with App rendered again.
Rendered(r, timeChanged) == [r EXCEPT !.app = render(r.app, store, r.store, timeChanged)]
SBecomes(r, token) == r.ctl.issued <= MaxSaverLoads /\ Becomes(r, token)

\* Date.now() where the loads of a run are issued in different milliseconds.
SClock(startsLoad) == IF startsLoad THEN {now + 1} ELSE {now}

SHandle(newStore) ==
    \E token \in SClock(StartsLoad(newStore)),
       playResult \in PlayResultsIf(StartsPlay(newStore)) :
        SBecomes(Rendered(update(World, newStore, token, playResult), FALSE), token)

SPlaySongContext ==
    \E list \in ViewLists : \E index \in 0..(Len(list) - 1) :
        /\ IdSet(list) \subseteq app.catalog
        /\ SHandle(setIsPlaying(setCurrentIndex(setQueue(store, list), index), TRUE))

STogglePlayPause == SHandle(togglePlayPause(store))

SToggleRepeat == SHandle(toggleRepeat(store))

SDeleteSongs ==
    \E songId \in app.catalog :
        LET newStore == deleteSongFromQueue(store, songId)
            w == [World EXCEPT !.app.catalog = @ \ {songId}]
        IN  \E token \in SClock(StartsLoad(newStore)) :
                SBecomes(Rendered(update(w, newStore, token, "started"), FALSE), token)

SSourceResolves ==
    \E l \in ctl.loads, outcome \in Outcomes :
    \E playResult \in PlayResultsIf(l.isPlaying /\ outcome = "ok") :
        SBecomes(Rendered(loadSongResume(World, l, outcome, playResult), FALSE), now)

\* requestAnimationFrame(loop) with App above it: setCurrentTime(ct) while the
\* resource plays, then the ended check.  A frame in which the saver does not run
\* again brings its timeout one frame nearer; a timeout that is due fires first.
SFrame ==
    /\ ctl.rafId
    /\ IF app.timer = <<>> THEN TRUE ELSE app.timer[1].age < DebounceFrames
    /\ \E token \in SClock(StartsLoad(LoopStore)),
          playResult \in PlayResultsIf(player.ended /\ store.repeatMode = "ONE") :
        LET timeChanged == ~player.paused /\ player.src # NoSrc
            r == Rendered(loop(World, token, playResult), timeChanged)
            waited == r.app.timer = app.timer /\ ~timeChanged /\ app.timer # <<>>
        IN  SBecomes(IF waited THEN [r EXCEPT !.app.timer[1].age = @ + 1] ELSE r, token)

STimerFires == TimerFires /\ UNCHANGED <<ctl, player, now, engine>>

SaverNext ==
    \/ SPlaySongContext
    \/ STogglePlayPause
    \/ SToggleRepeat
    \/ SDeleteSongs
    \/ SSourceResolves
    \/ SFrame
    \/ STimerFires
    \/ PlaybackEnds

SaverSpec == SaverInit /\ [][SaverNext]_vars

\* The event loop runs the callbacks that are due, the resolutions come back and
\* a track that plays comes to its end; the animation frames keep coming whatever
\* the user does in between.
FairSaverSpec ==
    /\ SaverSpec
    /\ WF_vars(SSourceResolves)
    /\ SF_vars(SFrame)
    /\ WF_vars(STimerFires)
    /\ WF_vars(PlaybackEnds)

\* The stored snapshot does not hold the values of the store.
Unsaved == app.storage # <<Session(store)>>

\* C8: if queue contents, currentIndex, the shuffle flag and repeatMode stop
\* changing after the initial load, then from some point on the snapshot held by
\* localStorage has their values (in the runs that stay within the loads the
\* model follows).
C8_SnapshotEventuallyWritten ==
    \/ []<><<Session(store') # Session(store)>>_vars
    \/ <>[]~Unsaved
    \/ <>[](ctl.issued = MaxSaverLoads)

\* C9: right after a restore from a snapshot whose track ids are all in the
\* catalog, the queue's ordered ids, currentIndex, repeatMode and the shuffle flag
\* are those of the snapshot.
C9_RoundTrip ==
    (app.restored /\ IdSet(app.storage[1].queueIds) \subseteq app.catalog)
        => Session(store) = app.storage[1]

====
